---- MODULE Spec2Model ----
(***************************************************************************)
(* sql2ldap: the per-connection loop (src/src/main.rs, handle_client) and  *)
(* the LDAP session (src/src/ldap_session.rs, LdapSession) over the        *)
(* attribute mappings of src/src/config.rs.                                *)
(*                                                                         *)
(* Strings the code inspects character by character (DNs, attribute names, *)
(* assertion values) are sequences of one-character strings.  Fixed SQL    *)
(* keywords and the configured identifiers the code only copies (column    *)
(* and table names) are single elements of the SQL text.                   *)
(***************************************************************************)
EXTENDS Integers, Sequences, FiniteSets, TLC

VARIABLES
    suffix,          \* conf.ldap.suffix, immutable after configuration load
    iter_order,      \* iteration order of the mappings HashMap, fixed per run
    dn,              \* LdapSession.dn
    sql_connection,  \* LdapSession.sql_connection is Some(_)
    pc,              \* position of handle_client
    lastReq,         \* the request being handled (NoRequest between two requests)
    produced,        \* the messages the handler of lastReq returned
    result,          \* what of produced the send loop has still to send
    wire,            \* the messages of lastReq written to the socket
    flushed,         \* resp.flush() has returned Ok for the last request read
    pre,             \* the session fields when lastReq was read
    prev,            \* operation and result code of the last request completed
    connect_result,  \* what PgConnection::connect_with returned for lastReq
    executed,        \* the SQL queries executed for lastReq
    sqlCount,        \* number of SQL queries executed by this session
    nreq             \* number of frames read from the connection

vars == <<suffix, iter_order, dn, sql_connection, pc, lastReq, produced, result,
          wire, flushed, pre, prev, connect_result, executed, sqlCount, nreq>>

\* Number of frames a client sends on one connection.
MaxRequests == 3

(***************************************************************************)
(* Strings                                                                 *)
(***************************************************************************)
AsciiUpper ==
    ("A" :> "a") @@ ("B" :> "b") @@ ("C" :> "c") @@ ("D" :> "d") @@
    ("E" :> "e") @@ ("I" :> "i") @@ ("L" :> "l") @@ ("M" :> "m") @@
    ("N" :> "n") @@ ("O" :> "o") @@ ("P" :> "p") @@ ("U" :> "u") @@
    ("X" :> "x")

\* A letter outside ASCII, with its lowercase form.
UnicodeUpper == ("É" :> "é")

\* str::to_ascii_lowercase
to_ascii_lowercase(s) ==
    [i \in 1..Len(s) |-> IF s[i] \in DOMAIN AsciiUpper THEN AsciiUpper[s[i]] ELSE s[i]]

\* str::to_lowercase
to_lowercase(s) ==
    [i \in 1..Len(s) |->
        IF s[i] \in DOMAIN AsciiUpper THEN AsciiUpper[s[i]]
        ELSE IF s[i] \in DOMAIN UnicodeUpper THEN UnicodeUpper[s[i]]
        ELSE s[i]]

\* str::ends_with
ends_with(s, t) ==
    /\ Len(t) <= Len(s)
    /\ SubSeq(s, Len(s) - Len(t) + 1, Len(s)) = t

\* str::contains for a one-character pattern
contains(s, c) == \E i \in 1..Len(s) : s[i] = c

\* str::split for a one-character pattern: the pieces between the occurrences
RECURSIVE split(_, _)
split(s, c) ==
    IF ~contains(s, c) THEN <<s>>
    ELSE LET i == CHOOSE k \in 1..Len(s) :
                      s[k] = c /\ \A j \in 1..(k - 1) : s[j] # c
         IN  <<SubSeq(s, 1, i - 1)>> \o split(SubSeq(s, i + 1, Len(s)), c)

\* Iterator::take
take(seq, n) == SubSeq(seq, 1, IF Len(seq) < n THEN Len(seq) ELSE n)

\* Vec::contains
vec_contains(seq, x) == \E i \in 1..Len(seq) : seq[i] = x

Str_Anonymous == <<"A", "n", "o", "n", "y", "m", "o", "u", "s">>
Str_dn == <<"d", "n", ":", " ">>
Str_objectClass == <<"o", "b", "j", "e", "c", "t", "C", "l", "a", "s", "s">>
Str_top == <<"t", "o", "p">>
Str_namingContexts ==
    <<"n", "a", "m", "i", "n", "g", "C", "o", "n", "t", "e", "x", "t", "s">>
Str_organization == <<"o", "r", "g", "a", "n", "i", "z", "a", "t", "i", "o", "n">>
Str_entryDN == <<"e", "n", "t", "r", "y", "D", "N">>
Str_cn == <<"c", "n">>
Str_star == <<"*">>

(***************************************************************************)
(* Configuration (config.rs)                                               *)
(***************************************************************************)
\* The [mappings] table of the configuration file: attribute, column.
ConfigMappings ==
    << [attr |-> <<"c", "n">>, col |-> "uid"],
       [attr |-> <<"M", "a", "i", "l">>, col |-> "email"] >>

\* Mappings::new
MappingsNew == << >>

\* Mappings::insert: keyed by the lowercased attribute, last writer wins
MappingsInsert(m, attr, col) ==
    LET key == to_ascii_lowercase(attr)
    IN  [k \in (DOMAIN m) \cup {key} |->
            IF k = key THEN [attr |-> attr, col |-> col] ELSE m[k]]

\* MappingsVisitor::visit_map
RECURSIVE visit_map(_, _)
visit_map(m, entries) ==
    IF entries = << >> THEN m
    ELSE visit_map(MappingsInsert(m, Head(entries).attr, Head(entries).col),
                   Tail(entries))

mappings == visit_map(MappingsNew, ConfigMappings)

\* Mappings::get: None is << >>, Some((attr_lower, attr, col)) a one-element sequence
MappingsGet(m, attr) ==
    LET key == to_ascii_lowercase(attr)
    IN  IF key \in DOMAIN m
        THEN << [attr_lower |-> key, attr |-> m[key].attr, col |-> m[key].col] >>
        ELSE << >>

\* Mappings::len
MappingsLen(m) == Cardinality(DOMAIN m)

\* The orders in which a HashMap may hand out its keys
IterOrders(m) ==
    { o \in [1..MappingsLen(m) -> DOMAIN m] :
        \A i, j \in 1..MappingsLen(m) : i # j => o[i] # o[j] }

\* Mappings::iter / IntoIterator for &Mappings, in the order of this run
MappingsIter(m, order) ==
    [i \in 1..Len(order) |->
        [attr_lower |-> order[i], attr |-> m[order[i]].attr, col |-> m[order[i]].col]]

\* conf.sql.table
SqlTable == "people"

\* The naming contexts the gateway is configured with in the runs checked.
Suffixes ==
    { <<"d", "c", "=", "E", "x", ",", "d", "c", "=", "c">>,
      <<"o", "u", "=", "P", ",", "d", "c", "=", "c">>,
      <<"o", "=", "x", ",", "d", "c", "=", "c">> }

(***************************************************************************)
(* LDAP messages (ldap3_server::simple generators, as called)              *)
(***************************************************************************)
\* SimpleBindRequest::gen_success
BindSuccess == [op |-> "BindResponse", code |-> "success", message |-> ""]

\* SimpleBindRequest::gen_operror
BindOperror(msg) == [op |-> "BindResponse", code |-> "operationsError", message |-> msg]

\* SimpleBindRequest::gen_invalid_cred
BindInvalidCred == [op |-> "BindResponse", code |-> "invalidCredentials", message |-> ""]

\* SearchRequest::gen_success
SearchSuccess == [op |-> "SearchResultDone", code |-> "success", message |-> ""]

\* SearchRequest::gen_error
SearchError(code, msg) == [op |-> "SearchResultDone", code |-> code, message |-> msg]

\* SearchRequest::gen_result_entry
SearchEntry(entry_dn, attributes) ==
    [op |-> "SearchResultEntry", dn |-> entry_dn, attributes |-> attributes]

\* LdapPartialAttribute
PartialAttribute(atype, vals) == [atype |-> atype, vals |-> vals]

\* WhoamiRequest::gen_success
WhoamiSuccess(name) == [op |-> "ExtendedResponse", code |-> "success", value |-> name]

\* DisconnectionNotice::gen
DisconnectionNotice(code, msg) ==
    [op |-> "DisconnectionNotice", code |-> code, message |-> msg]

(***************************************************************************)
(* SQL text (ldap_session.rs, build_select and build_filter)               *)
(***************************************************************************)
\* Option<T>: None is << >>, Some(x) is <<x>>
None == << >>
Some(x) == <<x>>
is_some(o) == o # << >>
unwrap(o) == o[1]

\* [String]::join
RECURSIVE join(_, _)
join(parts, sep) ==
    IF parts = << >> THEN << >>
    ELSE IF Len(parts) = 1 THEN parts[1]
    ELSE parts[1] \o sep \o join(Tail(parts), sep)

\* format!("{} AS {}", col, attr_lower)
ColAs(col, attr_lower) == <<col, " AS ">> \o attr_lower

\* build_select, the loop over the requested attributes
RECURSIVE select_requested(_, _, _, _)
select_requested(m, attrs, cols, has_cn) ==
    IF attrs = << >> THEN [cols |-> cols, has_cn |-> has_cn]
    ELSE LET got == MappingsGet(m, Head(attrs))
         IN  IF is_some(got)
             THEN select_requested(m, Tail(attrs),
                      Append(cols, ColAs(unwrap(got).col, unwrap(got).attr_lower)),
                      has_cn \/ unwrap(got).attr_lower = Str_cn)
             ELSE select_requested(m, Tail(attrs), cols, has_cn)

\* build_select
build_select(m, order, lsr) ==
    LET cols ==
            IF Len(lsr.attrs) > 0 /\ ~vec_contains(lsr.attrs, Str_star)
            THEN LET r == select_requested(m, lsr.attrs, << >>, FALSE)
                 IN  IF ~r.has_cn
                     THEN Append(r.cols,
                                 ColAs(unwrap(MappingsGet(m, Str_cn)).col, Str_cn))
                     ELSE r.cols
            ELSE LET it == MappingsIter(m, order)
                 IN  [i \in 1..Len(it) |-> ColAs(it[i].col, it[i].attr_lower)]
    IN  <<"SELECT ">> \o join(cols, <<", ">>) \o <<" ">>

\* sanitize: s.replace("%", "\\%").replace("_", "\\_")
RECURSIVE sanitize(_)
sanitize(s) ==
    IF s = << >> THEN << >>
    ELSE (IF Head(s) \in {"%", "_"} THEN <<"\\", Head(s)>> ELSE <<Head(s)>>)
         \o sanitize(Tail(s))

\* get_token that numbers from the bindings already pushed
get_token_stale(bindings) == <<"$", ToString(Len(bindings))>>

\* get_token: format!("${}", bindings.len() + 1)
get_token(bindings) == <<"$", ToString(Len(bindings) + 1)>>

\* get_mapping: the column of a mapped attribute, the literal '' otherwise
get_mapping(m, attr) ==
    IF is_some(MappingsGet(m, attr)) THEN unwrap(MappingsGet(m, attr)).col ELSE "''"

\* the pattern a Substring filter binds
RECURSIVE substring_any(_)
substring_any(any) ==
    IF any = << >> THEN << >>
    ELSE sanitize(Head(any)) \o <<"%">> \o substring_any(Tail(any))

substring_pattern(f) ==
    LET start == IF is_some(f.initial) THEN sanitize(unwrap(f.initial)) \o <<"%">>
                 ELSE << >>
        lead  == IF start = << >> /\ f.any # << >> THEN <<"%">> ELSE start
    IN  lead \o substring_any(f.any)
             \o (IF is_some(f.final) THEN sanitize(unwrap(f.final)) ELSE << >>)

\* build_filter_inner, with its closure join_filter_group; the accumulator acc
\* holds the query text and the bindings both are appended to
RECURSIVE build_filter_inner(_, _, _)
RECURSIVE join_filter_group(_, _, _, _)
join_filter_group(m, filters, sep, acc) ==
    LET RECURSIVE rest(_, _)
        rest(fs, a) ==
            LET b == build_filter_inner(m, Head(fs), a)
            IN  IF Len(fs) = 1 THEN b
                ELSE rest(Tail(fs), [b EXCEPT !.query = @ \o <<sep>>])
    IN  IF Len(filters) > 0
        THEN LET b == rest(filters, [acc EXCEPT !.query = @ \o <<"(">>])
             IN  [b EXCEPT !.query = @ \o <<") ">>]
        ELSE acc

\* build_filter_inner that writes the value of an Equality filter into the
\* query text as a quoted literal instead of binding it
build_filter_inner_inline(m, f, acc) ==
    CASE f.kind = "And" -> join_filter_group(m, f.filters, "AND ", acc)
      [] f.kind = "Or" -> join_filter_group(m, f.filters, "OR ", acc)
      [] f.kind = "Not" ->
            LET b == build_filter_inner(m, f.filter,
                                        [acc EXCEPT !.query = @ \o <<"(NOT ">>])
            IN  [b EXCEPT !.query = @ \o <<") ">>]
      [] f.kind = "Equality" ->
            [acc EXCEPT !.query = @ \o <<"LOWER(", get_mapping(m, f.attr),
                                          ") = LOWER(", "'">>
                                    \o f.value \o <<"'", ") ">>]
      [] f.kind = "Substring" ->
            [query |-> acc.query
                       \o <<"LOWER(", get_mapping(m, f.attr), ") LIKE LOWER(">>
                       \o get_token(acc.bindings) \o <<") ">>,
             bindings |-> Append(acc.bindings, substring_pattern(f))]
      [] f.kind = "Present" ->
            [acc EXCEPT !.query = @ \o <<get_mapping(m, f.attr), " <> '' ">>]

build_filter_inner(m, f, acc) ==
    CASE f.kind = "And" -> join_filter_group(m, f.filters, "AND ", acc)
      [] f.kind = "Or" -> join_filter_group(m, f.filters, "OR ", acc)
      [] f.kind = "Not" ->
            LET b == build_filter_inner(m, f.filter,
                                        [acc EXCEPT !.query = @ \o <<"(NOT ">>])
            IN  [b EXCEPT !.query = @ \o <<") ">>]
      [] f.kind = "Equality" ->
            [query |-> acc.query
                       \o <<"LOWER(", get_mapping(m, f.attr), ") = LOWER(">>
                       \o get_token(acc.bindings) \o <<") ">>,
             bindings |-> Append(acc.bindings, sanitize(f.value))]
      [] f.kind = "Substring" ->
            [query |-> acc.query
                       \o <<"LOWER(", get_mapping(m, f.attr), ") LIKE LOWER(">>
                       \o get_token(acc.bindings) \o <<") ">>,
             bindings |-> Append(acc.bindings, substring_pattern(f))]
      [] f.kind = "Present" ->
            [acc EXCEPT !.query = @ \o <<get_mapping(m, f.attr), " <> '' ">>]

\* build_filter
build_filter(m, lsr) ==
    build_filter_inner(m, lsr.filter, [query |-> <<"WHERE ">>, bindings |-> << >>])

(***************************************************************************)
(* The SQL backend: PostgreSQL executing the text the gateway sends.       *)
(* A column value is an Option: NULL is None.                              *)
(***************************************************************************)
\* The rows of the configured table, in the order the backend returns them.
Table ==
    << [uid |-> Some(<<"a">>),      email |-> Some(<<"m", "_">>)],
       [uid |-> Some(<<"B">>),      email |-> None],
       [uid |-> Some(<<"a", "b">>), email |-> Some(<< >>)] >>

TableColumns == {"uid", "email"}

\* SQL truth values
SqlNot(v) == CASE v = "true" -> "false" [] v = "false" -> "true" [] OTHER -> "null"
SqlAnd(a, b) ==
    IF a = "false" \/ b = "false" THEN "false"
    ELSE IF a = "true" /\ b = "true" THEN "true" ELSE "null"
SqlOr(a, b) ==
    IF a = "true" \/ b = "true" THEN "true"
    ELSE IF a = "false" /\ b = "false" THEN "false" ELSE "null"
SqlBool(b) == IF b THEN "true" ELSE "false"

\* s LIKE p, with % and _ wildcards and the escape character backslash
RECURSIVE Like(_, _)
Like(s, p) ==
    IF p = << >> THEN s = << >>
    ELSE IF Head(p) = "%"
         THEN \E k \in 0..Len(s) : Like(SubSeq(s, k + 1, Len(s)), Tail(p))
    ELSE IF Head(p) = "_" THEN s # << >> /\ Like(Tail(s), Tail(p))
    ELSE IF Head(p) = "\\"
         THEN /\ Len(p) >= 2
              /\ s # << >>
              /\ Head(s) = p[2]
              /\ Like(Tail(s), SubSeq(p, 3, Len(p)))
    ELSE s # << >> /\ Head(s) = Head(p) /\ Like(Tail(s), Tail(p))

\* "LIKE pattern must not end with escape character"
RECURSIVE LikePatternOk(_)
LikePatternOk(p) ==
    IF p = << >> THEN TRUE
    ELSE IF Head(p) = "\\" THEN Len(p) >= 2 /\ LikePatternOk(SubSeq(p, 3, Len(p)))
    ELSE LikePatternOk(Tail(p))

\* the number a placeholder names, 0 when it names no bound parameter
ParamIndex(tok, bindings) ==
    IF \E k \in 1..Len(bindings) : ToString(k) = tok
    THEN CHOOSE k \in 1..Len(bindings) : ToString(k) = tok
    ELSE 0

\* the value of a column reference or of the literal ''
IsOperand(tok) == tok \in TableColumns \cup {"''"}
Operand(tok, row) == IF tok = "''" THEN Some(<< >>) ELSE row[tok]

SqlFail == [ok |-> FALSE, val |-> "null", next |-> 0]

\* a comparison or test at position i of the text t
SqlAtom(t, i, row, bindings) ==
    LET n == Len(t)
    IN  IF i + 5 <= n /\ t[i] = "LOWER(" /\ IsOperand(t[i + 1])
           /\ t[i + 2] \in {") = LOWER(", ") LIKE LOWER("}
           /\ t[i + 3] = "$" /\ ParamIndex(t[i + 4], bindings) > 0
           /\ t[i + 5] = ") "
        THEN LET v == Operand(t[i + 1], row)
                 b == to_lowercase(bindings[ParamIndex(t[i + 4], bindings)])
             IN  IF t[i + 2] = ") = LOWER("
                 THEN [ok |-> TRUE, next |-> i + 6,
                       val |-> IF is_some(v)
                               THEN SqlBool(to_lowercase(unwrap(v)) = b)
                               ELSE "null"]
                 ELSE [ok |-> LikePatternOk(b), next |-> i + 6,
                       val |-> IF is_some(v)
                               THEN SqlBool(Like(to_lowercase(unwrap(v)), b))
                               ELSE "null"]
        ELSE IF i + 1 <= n /\ IsOperand(t[i]) /\ t[i + 1] = " <> '' "
        THEN LET v == Operand(t[i], row)
             IN  [ok |-> TRUE, next |-> i + 2,
                  val |-> IF is_some(v) THEN SqlBool(unwrap(v) # << >>) ELSE "null"]
        ELSE IF i + 4 <= n /\ IsOperand(t[i]) /\ t[i + 1] = " = " /\ t[i + 2] = "$"
                /\ ParamIndex(t[i + 3], bindings) > 0 /\ t[i + 4] = " "
        THEN LET v == Operand(t[i], row)
             IN  [ok |-> TRUE, next |-> i + 5,
                  val |-> IF is_some(v)
                          THEN SqlBool(unwrap(v) = bindings[ParamIndex(t[i + 3], bindings)])
                          ELSE "null"]
        ELSE SqlFail

\* a boolean expression at position i of the text t: its value for the row and
\* the position after it, or a syntax error
RECURSIVE SqlExpr(_, _, _, _)
RECURSIVE SqlGroup(_, _, _, _, _)
SqlGroup(t, i, row, bindings, left) ==
    IF i > Len(t) THEN SqlFail
    ELSE IF t[i] = ") " THEN [ok |-> TRUE, val |-> left, next |-> i + 1]
    ELSE IF t[i] \in {"AND ", "OR "}
         THEN LET r == SqlExpr(t, i + 1, row, bindings)
              IN  IF ~r.ok THEN SqlFail
                  ELSE SqlGroup(t, r.next, row, bindings,
                                IF t[i] = "AND " THEN SqlAnd(left, r.val)
                                ELSE SqlOr(left, r.val))
    ELSE SqlFail

SqlExpr(t, i, row, bindings) ==
    IF i > Len(t) THEN SqlFail
    ELSE IF t[i] = "("
         THEN LET r == SqlExpr(t, i + 1, row, bindings)
              IN  IF ~r.ok THEN SqlFail
                  ELSE SqlGroup(t, r.next, row, bindings, r.val)
    ELSE IF t[i] = "(NOT "
         THEN LET r == SqlExpr(t, i + 1, row, bindings)
              IN  IF r.ok /\ r.next <= Len(t) /\ t[r.next] = ") "
                  THEN [ok |-> TRUE, val |-> SqlNot(r.val), next |-> r.next + 1]
                  ELSE SqlFail
    ELSE SqlAtom(t, i, row, bindings)

\* position of the first occurrence of tok in t, 0 when there is none
IndexOf(t, tok) ==
    IF \E i \in 1..Len(t) : t[i] = tok
    THEN CHOOSE i \in 1..Len(t) : t[i] = tok /\ \A j \in 1..(i - 1) : t[j] # tok
    ELSE 0

\* the select list of a query: for each item its column and its alias
SelectItems(t) ==
    LET f == IndexOf(t, "FROM ")
        items == split(SubSeq(t, 2, f - 2), ", ")
    IN  [i \in 1..Len(items) |->
            [col |-> items[i][1], alias |-> SubSeq(items[i], 3, Len(items[i]))]]

\* the text parses as SELECT <col AS alias, ...> FROM <table> WHERE <expr>
QueryOk(t, bindings) ==
    LET f == IndexOf(t, "FROM ")
        items == split(SubSeq(t, 2, f - 2), ", ")
    IN  /\ Len(t) >= 1 /\ t[1] = "SELECT "
        /\ f >= 3 /\ t[f - 1] = " "
        /\ \A i \in 1..Len(items) :
              /\ Len(items[i]) >= 3
              /\ items[i][1] \in TableColumns
              /\ items[i][2] = " AS "
        /\ Len(t) >= f + 3
        /\ t[f + 1] = SqlTable /\ t[f + 2] = " " /\ t[f + 3] = "WHERE "
        /\ \A r \in 1..Len(Table) :
              LET e == SqlExpr(t, f + 4, Table[r], bindings)
              IN  e.ok /\ e.next = Len(t) + 1

\* the rows of the table the WHERE clause selects, in table order
RECURSIVE SelectRows(_, _, _, _)
SelectRows(t, start, bindings, rows) ==
    IF rows = << >> THEN << >>
    ELSE (IF SqlExpr(t, start, Head(rows), bindings).val = "true"
          THEN <<Head(rows)>> ELSE << >>)
         \o SelectRows(t, start, bindings, Tail(rows))

\* sqlx::query(..).bind(..).fetch(conn): Err for a query the backend rejects,
\* else the result rows, each the sequence of its (alias, value) columns
PgFetch(t, bindings) ==
    IF ~QueryOk(t, bindings) THEN [ok |-> FALSE, rows |-> << >>]
    ELSE LET sel  == SelectItems(t)
             rows == SelectRows(t, IndexOf(t, "FROM ") + 4, bindings, Table)
         IN  [ok |-> TRUE,
              rows |-> [r \in 1..Len(rows) |->
                          [c \in 1..Len(sel) |->
                              [name |-> sel[c].alias, value |-> rows[r][sel[c].col]]]]]

\* Row::try_get: the first column of that name; None when there is none
try_get(row, name) ==
    IF \E c \in 1..Len(row) : row[c].name = name
    THEN Some(row[CHOOSE c \in 1..Len(row) :
                    row[c].name = name /\ \A d \in 1..(c - 1) : row[d].name # name].value)
    ELSE None

(***************************************************************************)
(* LdapSession (ldap_session.rs)                                           *)
(***************************************************************************)
\* LdapSession::new
SessionNew == [dn |-> << >>, sql_connection |-> FALSE]

\* do_bind that answers success without keeping the connection it opened
do_bind_drops_connection(session, sbr, connect_ok) ==
    IF sbr.dn = << >> /\ sbr.pw = << >>
    THEN IF connect_ok
         THEN [session |-> [session EXCEPT !.dn = Str_Anonymous],
               msg |-> BindSuccess, connect |-> "ok"]
         ELSE [session |-> [session EXCEPT !.dn = Str_Anonymous],
               msg |-> BindOperror("Could not connect to backend"),
               connect |-> "err"]
    ELSE [session |-> session, msg |-> BindInvalidCred, connect |-> "none"]

\* do_bind that starts a fresh session when it refuses the credentials
do_bind_resets_session(session, sbr, connect_ok) ==
    IF sbr.dn = << >> /\ sbr.pw = << >>
    THEN IF connect_ok
         THEN [session |-> [dn |-> Str_Anonymous, sql_connection |-> TRUE],
               msg |-> BindSuccess, connect |-> "ok"]
         ELSE [session |-> [session EXCEPT !.dn = Str_Anonymous],
               msg |-> BindOperror("Could not connect to backend"),
               connect |-> "err"]
    ELSE [session |-> SessionNew, msg |-> BindInvalidCred, connect |-> "none"]

\* LdapSession::do_bind; connect_ok is the outcome of PgConnection::connect_with
do_bind(session, sbr, connect_ok) ==
    IF sbr.dn = << >> /\ sbr.pw = << >>
    THEN IF connect_ok
         THEN [session |-> [dn |-> Str_Anonymous, sql_connection |-> TRUE],
               msg |-> BindSuccess, connect |-> "ok"]
         ELSE [session |-> [session EXCEPT !.dn = Str_Anonymous],
               msg |-> BindOperror("Could not connect to backend"),
               connect |-> "err"]
    ELSE [session |-> session, msg |-> BindInvalidCred, connect |-> "none"]

\* LdapSession::do_whoami
do_whoami(session) == WhoamiSuccess(Str_dn \o session.dn)

\* root_dse that advertises the lowercased suffix
root_dse_lowercased(sfx) ==
    << SearchEntry(<< >>,
                   << PartialAttribute(Str_objectClass, <<Str_top>>),
                      PartialAttribute(Str_namingContexts, <<to_lowercase(sfx)>>) >>),
       SearchSuccess >>

\* do_search, the reply to a Base search of the empty DN
root_dse(sfx) ==
    << SearchEntry(<< >>,
                   << PartialAttribute(Str_objectClass, <<Str_top>>),
                      PartialAttribute(Str_namingContexts, <<sfx>>) >>),
       SearchSuccess >>

\* do_search, the reply to a Base search of the suffix
suffix_entry(sfx) ==
    << SearchEntry(sfx,
                   << PartialAttribute(Str_objectClass, <<Str_organization>>),
                      PartialAttribute(Str_entryDN, <<sfx>>) >>),
       SearchSuccess >>

\* do_search, "Tree discovery": either the reply, or the decision to query
\* with cn_base_search
tree_discovery(sfx, lsr) ==
    LET base_lower == to_ascii_lowercase(lsr.base)
        suffix_lower == to_lowercase(sfx)
    IN  IF lsr.scope = "Base"
        THEN IF lsr.base = << >>
             THEN [reply |-> TRUE, msgs |-> root_dse(sfx)]
             ELSE IF base_lower = suffix_lower
             THEN [reply |-> TRUE, msgs |-> suffix_entry(sfx)]
             ELSE IF ends_with(base_lower, <<",">> \o suffix_lower)
             THEN LET ident == SubSeq(base_lower, 1,
                                      Len(base_lower) - Len(suffix_lower) - 1)
                      ident_split == take(split(ident, "="), 3)
                  IN  IF contains(ident, ",") \/ Len(ident_split) # 2
                         \/ ident_split[1] # Str_cn
                      THEN [reply |-> TRUE,
                            msgs |-> << SearchError("noSuchObject", "") >>]
                      ELSE [reply |-> FALSE, cn_base_search |-> Some(ident_split[2])]
             ELSE [reply |-> FALSE, cn_base_search |-> None]
        ELSE IF base_lower # suffix_lower
        THEN [reply |-> TRUE, msgs |-> << SearchError("noSuchObject", "") >>]
        ELSE [reply |-> FALSE, cn_base_search |-> None]

\* do_search, "Build SQL query": the text and the bindings
search_query(m, order, lsr, cn_base_search) ==
    LET select == build_select(m, order, lsr) \o <<"FROM ", SqlTable, " ">>
    IN  IF is_some(cn_base_search)
        THEN [text |-> select \o <<"WHERE ", unwrap(MappingsGet(m, Str_cn)).col,
                                   " = ", "$", "1", " ">>,
              bindings |-> <<unwrap(cn_base_search)>>]
        ELSE LET f == build_filter(m, lsr)
             IN  [text |-> select \o f.query, bindings |-> f.bindings]

\* the closure add_attribute of the row loop
add_attribute(row, acc, attr, col) ==
    LET got == try_get(row, col)
    IN  IF ~is_some(got) THEN [acc EXCEPT !.panic = TRUE]
        ELSE IF is_some(unwrap(got)) /\ Len(unwrap(unwrap(got))) > 0
        THEN [acc EXCEPT !.attributes =
                 Append(@, PartialAttribute(attr, <<unwrap(unwrap(got))>>))]
        ELSE acc

\* the row loop, "Only requested attributes"
RECURSIVE requested_attributes(_, _, _, _)
requested_attributes(m, row, attrs, acc) ==
    IF attrs = << >> THEN acc
    ELSE LET got == MappingsGet(m, Head(attrs))
         IN  requested_attributes(m, row, Tail(attrs),
                 IF is_some(got)
                 THEN add_attribute(row, acc, unwrap(got).attr, unwrap(got).attr_lower)
                 ELSE acc)

\* the row loop, "Return all attributes"
RECURSIVE all_attributes(_, _, _)
all_attributes(row, it, acc) ==
    IF it = << >> THEN acc
    ELSE all_attributes(row, Tail(it),
                        add_attribute(row, acc, Head(it).attr, Head(it).attr_lower))

\* one iteration of the row loop: the entry of a row, or a panic of an unwrap
row_entry(m, order, sfx, lsr, row) ==
    LET start == [panic |-> FALSE, attributes |-> << >>]
        acc == IF Len(lsr.attrs) > 0
               THEN requested_attributes(m, row, lsr.attrs, start)
               ELSE all_attributes(row, MappingsIter(m, order), start)
        cn  == try_get(row, Str_cn)
    IN  IF acc.panic \/ ~is_some(cn) \/ ~is_some(unwrap(cn))
        THEN [panic |-> TRUE, msg |-> SearchSuccess]
        ELSE [panic |-> FALSE,
              msg |-> SearchEntry(
                          <<"c", "n", "=">> \o unwrap(unwrap(cn))
                              \o (IF Len(sfx) > 0 THEN <<",">> \o sfx ELSE << >>),
                          acc.attributes)]

\* do_search, the query sent over the connection and the row loop; db_ok is
\* whether the backend stays reachable while the rows are streamed
search_fetch(m, order, sfx, lsr, q, db_ok) ==
    LET fetched == PgFetch(q.text, q.bindings)
        entries == [r \in 1..Len(fetched.rows) |->
                       row_entry(m, order, sfx, lsr, fetched.rows[r])]
    IN  IF ~db_ok \/ ~fetched.ok \/ \E r \in 1..Len(entries) : entries[r].panic
        THEN [msgs |-> << >>, executed |-> <<q>>, panic |-> TRUE]
        ELSE [msgs |-> [r \in 1..Len(entries) |-> entries[r].msg] \o <<SearchSuccess>>,
              executed |-> <<q>>, panic |-> FALSE]

\* search_execute without the check that the session holds a connection
search_execute_unchecked(conn, m, order, sfx, lsr, q, db_ok) ==
    search_fetch(m, order, sfx, lsr, q, db_ok)

\* do_search from the connection check on
search_execute(conn, m, order, sfx, lsr, q, db_ok) ==
    IF ~conn
    THEN [msgs |-> << SearchError("operationsError", "Client did not bind.") >>,
          executed |-> << >>, panic |-> FALSE]
    ELSE search_fetch(m, order, sfx, lsr, q, db_ok)

\* LdapSession::do_search
do_search(session, m, order, sfx, lsr, db_ok) ==
    LET d == tree_discovery(sfx, lsr)
    IN  IF d.reply THEN [msgs |-> d.msgs, executed |-> << >>, panic |-> FALSE]
        ELSE search_execute(session.sql_connection, m, order, sfx, lsr,
                            search_query(m, order, lsr, d.cn_base_search), db_ok)

(***************************************************************************)
(* The requests a client sends in the runs checked                         *)
(***************************************************************************)
BindRequests ==
    { [op |-> "SimpleBind", dn |-> d, pw |-> p] :
        d \in {<< >>, <<"u">>}, p \in {<< >>, <<"p">>} }

WhoamiRequest == [op |-> "Whoami"]
UnbindRequest == [op |-> "Unbind"]
DecodeError == [op |-> "DecodeError"]
NoRequest == [op |-> "None"]

\* the suffix with the case of its ASCII letters swapped
SwapCase(s) ==
    [i \in 1..Len(s) |->
        IF s[i] \in DOMAIN AsciiUpper THEN AsciiUpper[s[i]]
        ELSE IF \E u \in DOMAIN AsciiUpper : AsciiUpper[u] = s[i]
             THEN CHOOSE u \in DOMAIN AsciiUpper : AsciiUpper[u] = s[i]
             ELSE s[i]]

\* base DNs below the suffix: the RDNs put in front of it
LeafPrefixes ==
    { <<"c", "n", "=", "a", ",">>,
      <<"C", "N", "=", "B", ",">>,
      <<"c", "n", "=", ",">>,
      <<"c", "n", ",">>,
      <<"o", "u", "=", "a", ",">>,
      <<"c", "n", "=", "a", "=", "b", ",">>,
      <<"c", "n", "=", "a", ",", "o", "u", "=", "p", ",">>,
      <<"x">> }

\* base DNs above or beside the suffix
OutsideBases ==
    { <<"d", "c", "=", "c">>,
      <<"D", "C", "=", "C">>,
      <<"c">>,
      <<"d", "c", "=", "x">>,
      <<"c", "n", "=", "a", ",", "d", "c", "=", "x">> }

Bases(sfx) ==
    {<< >>, sfx, SwapCase(sfx)} \cup { p \o sfx : p \in LeafPrefixes } \cup OutsideBases

Present(attr) == [kind |-> "Present", attr |-> attr]
Equality(attr, value) == [kind |-> "Equality", attr |-> attr, value |-> value]
Substring(attr, initial, any, final) ==
    [kind |-> "Substring", attr |-> attr, initial |-> initial, any |-> any,
     final |-> final]
And(filters) == [kind |-> "And", filters |-> filters]
Or(filters) == [kind |-> "Or", filters |-> filters]
Not(filter) == [kind |-> "Not", filter |-> filter]

Filters ==
    { Present(<<"c", "n">>),
      Equality(<<"C", "N">>, <<"A">>),
      Equality(<<"x">>, <<"a">>),
      Substring(<<"c", "n">>, None, <<<<"b">>>>, None),
      And(<< Present(<<"m", "a", "i", "l">>), Not(Equality(<<"c", "n">>, <<"b">>)) >>),
      Or(<< Equality(<<"c", "n">>, <<"b">>), Present(<<"M", "a", "i", "l">>) >>),
      And(<< >>) }

\* filters with values that hold LIKE metacharacters, with several values,
\* with one-sided substrings and with empty groups inside other nodes
ValueFilters ==
    { Equality(<<"M", "a", "i", "l">>, <<"M", "_">>),
      Substring(<<"c", "n">>, None, << >>, Some(<<"b">>)),
      Substring(<<"m", "a", "i", "l">>, Some(<<"m">>), << >>, None),
      Substring(<<"c", "n">>, Some(<<"a">>), <<<<"_">>>>, Some(<<"b">>)),
      And(<< Equality(<<"c", "n">>, <<"a">>),
             Present(<<"m", "a", "i", "l">>),
             Not(Substring(<<"c", "n">>, None, <<<<"%">>>>, Some(<<"b">>))),
             Or(<< Equality(<<"x">>, <<"q">>),
                   Equality(<<"m", "a", "i", "l">>, <<"m", "_">>) >>) >>),
      Not(And(<< >>)),
      And(<< Or(<< >>), Present(<<"c", "n">>) >>),
      Or(<< Present(<<"c", "n">>), And(<< >>) >>) }

AttrLists ==
    { << >>,
      <<Str_star>>,
      <<<<"M", "A", "I", "L">>>>,
      <<<<"c", "n">>, <<"x">>>>,
      <<Str_star, <<"c", "n">>>> }

SearchRequest(base, scope, filter, attrs, sizelimit) ==
    [op |-> "Search", base |-> base, scope |-> scope, filter |-> filter,
     attrs |-> attrs, sizelimit |-> sizelimit]

Scopes == {"Base", "OneLevel", "Subtree"}

SearchRequests(sfx) ==
    { SearchRequest(b, sc, Present(<<"c", "n">>), << >>, 0) :
        b \in Bases(sfx), sc \in Scopes }
    \cup
    { SearchRequest(sfx, "Subtree", f, a, 0) : f \in Filters, a \in AttrLists }
    \cup
    { SearchRequest(<< >>, "Base", f, a, 0) :
        f \in Filters, a \in {<< >>, <<<<"c", "n">>, <<"x">>>>} }
    \cup
    { SearchRequest(b, "Base", f, << >>, 0) :
        b \in {<<"c", "n", "=", "a", ",">> \o sfx, <<"d", "c", "=", "c">>},
        f \in Filters }
    \cup
    { SearchRequest(<<"c", "n", "=", "a", ",">> \o sfx, "Base", Present(<<"c", "n">>), a, 0) :
        a \in AttrLists }
    \cup
    { SearchRequest(sfx, "Subtree", Present(<<"c", "n">>), << >>, 1) }
    \cup
    { SearchRequest(sfx, "Subtree", f, << >>, 0) : f \in ValueFilters }

(***************************************************************************)
(* handle_client (main.rs)                                                 *)
(***************************************************************************)
Session == [dn |-> dn, sql_connection |-> sql_connection]

\* operation and result code of a handled request
Summary(req, msgs) ==
    [op |-> req.op, code |-> IF msgs = << >> THEN "none" ELSE msgs[Len(msgs)].code]

Init ==
    /\ suffix \in Suffixes
    /\ iter_order \in IterOrders(mappings)
    /\ dn = SessionNew.dn
    /\ sql_connection = SessionNew.sql_connection
    /\ pc = "read"
    /\ lastReq = NoRequest
    /\ produced = << >>
    /\ result = << >>
    /\ wire = << >>
    /\ flushed = FALSE
    /\ pre = SessionNew
    /\ prev = Summary(NoRequest, << >>)
    /\ connect_result = "none"
    /\ executed = << >>
    /\ sqlCount = 0
    /\ nreq = 0

\* reqs.next() has handed out a frame: what every outcome of it records
Read(req, msgs) ==
    /\ pc = "read"
    /\ nreq < MaxRequests
    /\ nreq' = nreq + 1
    /\ lastReq' = req
    /\ produced' = msgs
    /\ result' = msgs
    /\ wire' = << >>
    /\ flushed' = FALSE
    /\ pre' = Session
    /\ UNCHANGED <<suffix, iter_order, prev>>

\* ServerOps::SimpleBind
HandleBind ==
    \E sbr \in BindRequests, connect_ok \in BOOLEAN :
        LET r == do_bind(Session, sbr, connect_ok)
        IN  /\ Read(sbr, <<r.msg>>)
            /\ dn' = r.session.dn
            /\ sql_connection' = r.session.sql_connection
            /\ connect_result' = r.connect
            /\ pc' = "send"
            /\ UNCHANGED <<executed, sqlCount>>

\* ServerOps::Search; a panic in do_search ends the task
HandleSearch ==
    \E lsr \in SearchRequests(suffix),
       db_ok \in IF sql_connection THEN BOOLEAN ELSE {TRUE} :
        LET r == do_search(Session, mappings, iter_order, suffix, lsr, db_ok)
        IN  /\ Read(lsr, r.msgs)
            /\ executed' = r.executed
            /\ sqlCount' = sqlCount + Len(r.executed)
            /\ pc' = IF r.panic THEN "closed" ELSE "send"
            /\ connect_result' = "none"
            /\ UNCHANGED <<dn, sql_connection>>

\* ServerOps::Whoami
HandleWhoami ==
    /\ Read(WhoamiRequest, <<do_whoami(Session)>>)
    /\ pc' = "send"
    /\ connect_result' = "none"
    /\ UNCHANGED <<dn, sql_connection, executed, sqlCount>>

\* ServerOps::Unbind
HandleUnbind ==
    /\ Read(UnbindRequest, << >>)
    /\ pc' = "closed"
    /\ connect_result' = "none"
    /\ UNCHANGED <<dn, sql_connection, executed, sqlCount>>

\* the frame does not decode, or ServerOps::try_from refuses the operation
HandleDecodeError ==
    /\ Read(DecodeError, <<DisconnectionNotice("other", "Internal Server Error")>>)
    /\ pc' = "notice"
    /\ connect_result' = "none"
    /\ UNCHANGED <<dn, sql_connection, executed, sqlCount>>

\* reqs.next() yields None: the client has disconnected
ClientDisconnect ==
    /\ pc = "read"
    /\ pc' = "closed"
    /\ UNCHANGED <<suffix, iter_order, dn, sql_connection, lastReq, produced, result,
                   wire, flushed, pre, prev, connect_result, executed, sqlCount, nreq>>

\* what result.into_iter() hands the send loop next
next_rmsg(msgs) == Head(msgs)

\* SendOk that goes back to reading after the first message of a result
SendOk_reads_early ==
    /\ pc = "send"
    /\ result # << >>
    /\ wire' = Append(wire, next_rmsg(result))
    /\ result' = Tail(result)
    /\ pc' = IF Tail(result) = << >> THEN "flush" ELSE "read"
    /\ UNCHANGED <<suffix, iter_order, dn, sql_connection, lastReq, produced,
                   flushed, pre, prev, connect_result, executed, sqlCount, nreq>>

\* for rmsg in result.into_iter(): resp.send(rmsg) returns Ok
SendOk ==
    /\ pc = "send"
    /\ result # << >>
    /\ wire' = Append(wire, next_rmsg(result))
    /\ result' = Tail(result)
    /\ pc' = IF Tail(result) = << >> THEN "flush" ELSE "send"
    /\ UNCHANGED <<suffix, iter_order, dn, sql_connection, lastReq, produced,
                   flushed, pre, prev, connect_result, executed, sqlCount, nreq>>

\* resp.send(rmsg) returns Err
SendErr ==
    /\ pc = "send"
    /\ pc' = "closed"
    /\ UNCHANGED <<suffix, iter_order, dn, sql_connection, lastReq, produced, result,
                   wire, flushed, pre, prev, connect_result, executed, sqlCount, nreq>>

\* resp.flush() returns Ok: the request is completed and the loop goes on to
\* the next frame
FlushOk ==
    /\ pc = "flush"
    /\ flushed' = TRUE
    /\ pc' = "read"
    /\ prev' = Summary(lastReq, produced)
    /\ lastReq' = NoRequest
    /\ produced' = << >>
    /\ wire' = << >>
    /\ executed' = << >>
    /\ pre' = Session
    /\ connect_result' = "none"
    /\ UNCHANGED <<suffix, iter_order, dn, sql_connection, result, sqlCount, nreq>>

\* resp.flush() returns Err
FlushErr ==
    /\ pc = "flush"
    /\ pc' = "closed"
    /\ UNCHANGED <<suffix, iter_order, dn, sql_connection, lastReq, produced, result,
                   wire, flushed, pre, prev, connect_result, executed, sqlCount, nreq>>

\* the disconnection notice is sent, its outcome ignored
SendNotice ==
    /\ pc = "notice"
    /\ \E ok \in BOOLEAN :
          /\ wire' = IF ok THEN Append(wire, next_rmsg(result)) ELSE wire
          /\ result' = Tail(result)
    /\ pc' = "noticeflush"
    /\ UNCHANGED <<suffix, iter_order, dn, sql_connection, lastReq, produced,
                   flushed, pre, prev, connect_result, executed, sqlCount, nreq>>

\* FlushNotice that goes on with the loop instead of returning
FlushNotice_continues ==
    /\ pc = "noticeflush"
    /\ flushed' \in BOOLEAN
    /\ pc' = "read"
    /\ UNCHANGED <<suffix, iter_order, dn, sql_connection, lastReq, produced, result,
                   wire, pre, prev, connect_result, executed, sqlCount, nreq>>

\* the notice is flushed, the outcome ignored, and handle_client returns
FlushNotice ==
    /\ pc = "noticeflush"
    /\ flushed' \in BOOLEAN
    /\ pc' = "closed"
    /\ UNCHANGED <<suffix, iter_order, dn, sql_connection, lastReq, produced, result,
                   wire, pre, prev, connect_result, executed, sqlCount, nreq>>

Next ==
    \/ HandleBind
    \/ HandleSearch
    \/ HandleWhoami
    \/ HandleUnbind
    \/ HandleDecodeError
    \/ ClientDisconnect
    \/ SendOk
    \/ SendErr
    \/ FlushOk
    \/ FlushErr
    \/ SendNotice
    \/ FlushNotice

Spec == Init /\ [][Next]_vars

TypeOK ==
    /\ pc \in {"read", "send", "flush", "notice", "noticeflush", "closed"}
    /\ sql_connection \in BOOLEAN
    /\ nreq \in 0..MaxRequests

(***************************************************************************)
(* Claims                                                                  *)
(***************************************************************************)
ClientDidNotBind == SearchError("operationsError", "Client did not bind.")

C2_FailedBindKeepsState ==
    /\ (lastReq.op = "SimpleBind" /\ (lastReq.dn # << >> \/ lastReq.pw # << >>)) =>
          /\ produced = <<BindInvalidCred>>
          /\ dn = pre.dn
          /\ sql_connection = pre.sql_connection
    /\ (prev.op = "SimpleBind" /\ prev.code = "invalidCredentials"
        /\ lastReq.op = "Search" /\ pre.sql_connection) =>
          produced # <<ClientDidNotBind>>

\* C2 witness: a Bound session has refused a bind with a password.
C2_Witness ==
    /\ lastReq.op = "SimpleBind"
    /\ lastReq.pw # << >>
    /\ pre.dn = Str_Anonymous
    /\ pre.sql_connection
    /\ pc = "flush"
    /\ wire = <<BindInvalidCred>>

\* the request is a Base search of cn=<value>,<suffix>
IsLeafLookup(req, sfx) ==
    LET bl == to_lowercase(req.base)
        sl == to_lowercase(sfx)
        parts == split(SubSeq(bl, 1, Len(bl) - Len(sl) - 1), "=")
    IN  /\ req.scope = "Base"
        /\ ends_with(bl, <<",">> \o sl)
        /\ ~contains(SubSeq(bl, 1, Len(bl) - Len(sl) - 1), ",")
        /\ Len(parts) = 2
        /\ parts[1] = Str_cn
        /\ parts[2] # << >>

\* the request is a OneLevel or Subtree search of the suffix
IsSubtreeScan(req, sfx) ==
    /\ req.scope \in {"OneLevel", "Subtree"}
    /\ to_lowercase(req.base) = to_lowercase(sfx)

\* C3: while no bind of the session has established a SQL connection, a leaf
\* lookup or a subtree scan is answered with the single result operationsError
\* "Client did not bind." and no entry, and the session has executed no SQL.
C3_UnboundSearchRefused ==
    /\ (lastReq.op = "Search" /\ ~pre.sql_connection
        /\ (IsLeafLookup(lastReq, suffix) \/ IsSubtreeScan(lastReq, suffix))) =>
          /\ produced = <<ClientDidNotBind>>
          /\ executed = << >>
    /\ ~sql_connection => sqlCount = 0

\* C3 witness: a leaf lookup of an unbound session has been refused.
C3_Witness ==
    /\ lastReq.op = "Search"
    /\ IsLeafLookup(lastReq, suffix)
    /\ ~pre.sql_connection
    /\ pc = "flush"
    /\ wire = <<ClientDidNotBind>>

\* C4: within a session the responses of a request are sent in the order the
\* handler produced them, all of them before the flush, and the next frame is
\* read only after that flush.
C4_SerialHandling ==
    /\ pc \in {"send", "flush"} => wire \o result = produced
    /\ pc = "flush" => wire = produced
    /\ pc = "read" =>
          /\ lastReq = NoRequest
          /\ result = << >>
          /\ nreq > 0 => flushed

\* C4 witness: the second request of a connection, a search with several
\* result messages, is being answered after the first was completed.
C4_Witness ==
    /\ nreq = 3
    /\ prev.op = "Search"
    /\ lastReq.op = "Search"
    /\ pc = "send"
    /\ Len(wire) = 2
    /\ Len(result) = 2

\* C5: a frame that cannot be decoded is answered with one disconnection notice
\* of result code other, and the connection ends: no later frame is read or
\* answered, whatever the session state was.
C5_DecodeErrorTerminates ==
    lastReq.op = "DecodeError" =>
        /\ produced = <<DisconnectionNotice("other", "Internal Server Error")>>
        /\ pc \in {"notice", "noticeflush", "closed"}
        /\ wire \in {<< >>, produced}
        /\ dn = pre.dn
        /\ sql_connection = pre.sql_connection

\* C5 witness: a Bound session has sent the notice and closed.
C5_Witness ==
    /\ lastReq.op = "DecodeError"
    /\ pre.sql_connection
    /\ pc = "closed"
    /\ wire = <<DisconnectionNotice("other", "Internal Server Error")>>

\* C6: a Base search of the empty DN returns, for any filter and attribute list
\* and in any session state, the one entry with dn "" and the attributes
\* objectClass=top and namingContexts=<suffix>, then success, without SQL.
C6_RootDSE ==
    (lastReq.op = "Search" /\ lastReq.scope = "Base" /\ lastReq.base = << >>) =>
        /\ produced =
              << [op |-> "SearchResultEntry", dn |-> << >>,
                  attributes |->
                      << [atype |-> Str_objectClass, vals |-> <<Str_top>>],
                         [atype |-> Str_namingContexts, vals |-> <<suffix>>] >>],
                 [op |-> "SearchResultDone", code |-> "success", message |-> ""] >>
        /\ executed = << >>

\* C6 witness: an unbound session has answered a root DSE probe that carries
\* an attribute list and a filter with a value.
C6_Witness ==
    /\ lastReq.op = "Search"
    /\ lastReq.scope = "Base"
    /\ lastReq.base = << >>
    /\ lastReq.filter.kind = "Equality"
    /\ lastReq.attrs # << >>
    /\ ~pre.sql_connection
    /\ pc = "flush"
    /\ Len(wire) = 2

Str_dcObject == <<"d", "c", "O", "b", "j", "e", "c", "t">>
Str_organizationalUnit ==
    <<"o", "r", "g", "a", "n", "i", "z", "a", "t", "i", "o", "n", "a", "l",
      "U", "n", "i", "t">>
Str_hasSubordinates ==
    <<"h", "a", "s", "S", "u", "b", "o", "r", "d", "i", "n", "a", "t", "e", "s">>
Str_TRUE == <<"T", "R", "U", "E">>

\* C7: a Base search whose base equals the suffix ignoring case returns,
\* without SQL, the entry dn=<suffix> with objectClass (dcObject for a dc
\* suffix, organizationalUnit for an ou suffix), the first RDN as
\* <type>=<value>, hasSubordinates=TRUE and entryDN=<suffix>, then success; a
\* suffix of another first RDN type yields the result code other.
C7_SuffixEntry ==
    (lastReq.op = "Search" /\ lastReq.scope = "Base" /\ lastReq.base # << >>
     /\ to_lowercase(lastReq.base) = to_lowercase(suffix)) =>
        LET rdn == split(split(to_lowercase(suffix), ",")[1], "=")
            class == IF rdn[1] = <<"d", "c">> THEN Str_dcObject
                     ELSE Str_organizationalUnit
        IN  /\ executed = << >>
            /\ IF rdn[1] \in {<<"d", "c">>, <<"o", "u">>}
               THEN produced =
                      << [op |-> "SearchResultEntry", dn |-> suffix,
                          attributes |->
                              << [atype |-> Str_objectClass, vals |-> <<class>>],
                                 [atype |-> rdn[1], vals |-> <<rdn[2]>>],
                                 [atype |-> Str_hasSubordinates, vals |-> <<Str_TRUE>>],
                                 [atype |-> Str_entryDN, vals |-> <<suffix>>] >>],
                         [op |-> "SearchResultDone", code |-> "success",
                          message |-> ""] >>
               ELSE /\ Len(produced) = 1
                    /\ produced[1].op = "SearchResultDone"
                    /\ produced[1].code = "other"

\* C8: a Base search whose base is a proper ancestor of the suffix returns the
\* success result alone, without entries and without SQL.
C8_AncestorProbe ==
    (lastReq.op = "Search" /\ lastReq.scope = "Base"
     /\ ends_with(to_lowercase(suffix), <<",">> \o to_lowercase(lastReq.base))) =>
        /\ produced = <<[op |-> "SearchResultDone", code |-> "success", message |-> ""]>>
        /\ executed = << >>

\* C9: a Base search whose base is not empty, not the suffix, not an ancestor
\* of the suffix and not below the suffix is answered with noSuchObject, runs
\* no SQL and returns no table rows.
C9_OutsideBase ==
    (lastReq.op = "Search" /\ lastReq.scope = "Base" /\ lastReq.base # << >>
     /\ to_lowercase(lastReq.base) # to_lowercase(suffix)
     /\ ~ends_with(to_lowercase(suffix), <<",">> \o to_lowercase(lastReq.base))
     /\ ~ends_with(to_lowercase(lastReq.base), <<",">> \o to_lowercase(suffix))) =>
        /\ Len(produced) = 1
        /\ produced[1].op = "SearchResultDone"
        /\ produced[1].code = "noSuchObject"
        /\ executed = << >>

\* C10: a OneLevel or Subtree search whose base differs from the suffix
\* ignoring case yields the success result alone, without entries and without
\* SQL; such a search runs the filtered scan only when the base is the suffix.
C10_NonBaseOffSuffix ==
    (lastReq.op = "Search" /\ lastReq.scope \in {"OneLevel", "Subtree"}) =>
        /\ to_lowercase(lastReq.base) # to_lowercase(suffix) =>
              /\ produced =
                    <<[op |-> "SearchResultDone", code |-> "success", message |-> ""]>>
              /\ executed = << >>
        /\ executed # << >> => to_lowercase(lastReq.base) = to_lowercase(suffix)

\* the part of a Base search's lowercased base in front of ",<suffix>"
LeafIdent(req, sfx) ==
    SubSeq(to_lowercase(req.base), 1, Len(req.base) - Len(sfx) - 1)

\* the WHERE clause of a query text, from the keyword on
WhereClause(text) == SubSeq(text, IndexOf(text, "WHERE "), Len(text))

\* C11: for a Base search whose lowercased base ends with "," and the
\* lowercased suffix, the part in front must hold no comma and split at "="
\* into exactly two non-empty parts, the first being cn; if not (an empty
\* value as in "cn=,<suffix>" included) the reply is noSuchObject and no SQL
\* runs; if so the query of a Bound session has the WHERE clause
\* "<cn column> = $1" with the cn value as its one binding, whatever the filter.
C11_LeafParsing ==
    (lastReq.op = "Search" /\ lastReq.scope = "Base"
     /\ ends_with(to_lowercase(lastReq.base), <<",">> \o to_lowercase(suffix))) =>
        LET ident == LeafIdent(lastReq, suffix)
            parts == split(ident, "=")
        IN  IF /\ ~contains(ident, ",")
               /\ Len(parts) = 2
               /\ parts[1] = Str_cn
               /\ parts[1] # << >> /\ parts[2] # << >>
            THEN pre.sql_connection =>
                    /\ Len(executed) = 1
                    /\ WhereClause(executed[1].text)
                          = <<"WHERE ", unwrap(MappingsGet(mappings, Str_cn)).col,
                              " = ", "$", "1", " ">>
                    /\ executed[1].bindings = <<parts[2]>>
            ELSE /\ produced = <<SearchError("noSuchObject", "")>>
                 /\ executed = << >>

\* the elements of SQL text that are fixed in the program
SqlKeywords ==
    {"WHERE ", "(", ") ", "(NOT ", "AND ", "OR ", "LOWER(", ") = LOWER(",
     ") LIKE LOWER(", " <> '' ", " = ", " ", "$", "''"}

\* the column names of the configured mapping
MappedColumns == { mappings[k].col : k \in DOMAIN mappings }

\* v is contained in b, in order
RECURSIVE IsSubsequence(_, _)
IsSubsequence(v, b) ==
    IF v = << >> THEN TRUE
    ELSE IF b = << >> THEN FALSE
    ELSE IF Head(v) = Head(b) THEN IsSubsequence(Tail(v), Tail(b))
    ELSE IsSubsequence(v, Tail(b))

\* the values a filter compares with, in left-to-right order of the tree
RECURSIVE ComparedValues(_)
ComparedValues(f) ==
    LET RECURSIVE OfAll(_)
        OfAll(fs) == IF fs = << >> THEN << >>
                     ELSE ComparedValues(Head(fs)) \o OfAll(Tail(fs))
    IN  CASE f.kind \in {"And", "Or"} -> OfAll(f.filters)
          [] f.kind = "Not" -> ComparedValues(f.filter)
          [] f.kind = "Equality" -> <<f.value>>
          [] f.kind = "Substring" -> f.initial \o f.any \o f.final
          [] f.kind = "Present" -> << >>

\* the request is answered from the filter query, not from a leaf lookup
UsesFilter(req, sfx) ==
    ~(req.scope = "Base"
      /\ ends_with(to_lowercase(req.base), <<",">> \o to_lowercase(sfx)))

\* C12: in every query a search request runs, the text is made only of fixed
\* keywords, the configured table, columns and aliases of the configured
\* mapping, the literal '' and placeholders $k that name a binding; no
\* attribute name or value of the request is in the text, and every value the
\* request compares with (filter values, the cn of the base DN) is in the
\* bindings.
C12_InjectionSafety ==
    (lastReq.op = "Search" /\ executed # << >>) =>
        LET text == executed[1].text
            bindings == executed[1].bindings
            from == IndexOf(text, "FROM ")
            items == SelectItems(text)
            where == WhereClause(text)
        IN  /\ text[1] = "SELECT "
            /\ \A i \in 1..Len(items) :
                  /\ items[i].alias \in DOMAIN mappings
                  /\ items[i].col = mappings[items[i].alias].col
            /\ SubSeq(text, from - 1, from + 3) = <<" ", "FROM ", SqlTable, " ", "WHERE ">>
            /\ \A i \in 1..Len(where) :
                  where[i] \in SqlKeywords \cup MappedColumns
                               \cup { ToString(k) : k \in 1..Len(bindings) }
            /\ IF UsesFilter(lastReq, suffix)
               THEN LET vals == ComparedValues(lastReq.filter)
                    IN  \A i \in 1..Len(vals) :
                            \E j \in 1..Len(bindings) : IsSubsequence(vals[i], bindings[j])
               ELSE bindings = <<split(LeafIdent(lastReq, suffix), "=")[2]>>

\* C12 witness: a filter with four values, among them one with "%", one with
\* "_" and one on an unmapped attribute, has been run and answered.
C12_Witness ==
    /\ lastReq.op = "Search"
    /\ lastReq.filter.kind = "And"
    /\ Len(executed) = 1
    /\ Len(executed[1].bindings) = 4
    /\ pc = "flush"

\* the attributes of a table row in all-attributes mode: one per mapped
\* attribute whose value is neither NULL nor empty, under the configured name
AllModeAttributes(row) ==
    { PartialAttribute(mappings[k].attr, <<unwrap(row[mappings[k].col])>>) :
        k \in { k \in DOMAIN mappings :
                  /\ is_some(row[mappings[k].col])
                  /\ unwrap(row[mappings[k].col]) # << >> } }

\* the table row an entry was made from
EntryRow(entry, sfx) ==
    CHOOSE r \in 1..Len(Table) :
        entry.dn = <<"c", "n", "=">>
                   \o unwrap(Table[r][unwrap(MappingsGet(mappings, Str_cn)).col])
                   \o <<",">> \o sfx

\* C13: when the requested attribute list is empty or contains "*", alone or
\* with other names, the projection selects every mapped attribute and every
\* returned entry carries exactly one attribute, under its configured name, for
\* every mapped attribute whose row value is neither NULL nor empty.
C13_AllAttributesMode ==
    (lastReq.op = "Search" /\ executed # << >>
     /\ (lastReq.attrs = << >> \/ vec_contains(lastReq.attrs, Str_star))) =>
        /\ LET items == SelectItems(executed[1].text)
           IN  { items[i].alias : i \in 1..Len(items) } = DOMAIN mappings
        /\ \A i \in 1..Len(produced) :
              produced[i].op = "SearchResultEntry" =>
                  LET attrs == produced[i].attributes
                      expected == AllModeAttributes(Table[EntryRow(produced[i], suffix)])
                  IN  /\ { attrs[j] : j \in 1..Len(attrs) } = expected
                      /\ Len(attrs) = Cardinality(expected)

\* the number of entries among the messages of a result
EntryCount(msgs) ==
    Cardinality({ i \in 1..Len(msgs) : msgs[i].op = "SearchResultEntry" })

\* C14: the query of a search request with sizelimit n > 0 ends with LIMIT n
\* and the response holds at most n entries; with sizelimit 0 the query has
\* no LIMIT.
C14_SizeLimit ==
    (lastReq.op = "Search" /\ executed # << >>) =>
        LET text == executed[1].text
            n == lastReq.sizelimit
        IN  IF n > 0
            THEN /\ Len(text) >= 2
                 /\ SubSeq(text, Len(text) - 1, Len(text)) = <<"LIMIT ", ToString(n)>>
                 /\ EntryCount(produced) <= n
            ELSE \A i \in 1..Len(text) : text[i] # "LIMIT "

\* the numbers of the placeholders of a text, from left to right
RECURSIVE Placeholders(_)
Placeholders(t) ==
    IF Len(t) < 2 THEN << >>
    ELSE IF Head(t) = "$" THEN <<t[2]>> \o Placeholders(SubSeq(t, 3, Len(t)))
    ELSE Placeholders(Tail(t))

\* the Equality and Substring nodes of a filter, in left-to-right order
RECURSIVE ValueNodes(_)
ValueNodes(f) ==
    LET RECURSIVE OfAll(_)
        OfAll(fs) == IF fs = << >> THEN << >>
                     ELSE ValueNodes(Head(fs)) \o OfAll(Tail(fs))
    IN  CASE f.kind \in {"And", "Or"} -> OfAll(f.filters)
          [] f.kind = "Not" -> ValueNodes(f.filter)
          [] f.kind \in {"Equality", "Substring"} -> <<f>>
          [] f.kind = "Present" -> << >>

\* the characters of the values of a node, in order
RECURSIVE Flatten(_)
Flatten(seqs) == IF seqs = << >> THEN << >> ELSE Head(seqs) \o Flatten(Tail(seqs))

\* C15: the clause translated from a filter tree holds as many placeholders
\* as there are bindings, they read $1, $2, ..., $N from left to right, there
\* is one binding per Equality or Substring node, and the i-th binding holds
\* the value of the i-th such node of the left-to-right traversal; Present,
\* And, Or and Not nodes add no binding and use no number.
C15_PlaceholderNumbering ==
    (lastReq.op = "Search" /\ executed # << >> /\ UsesFilter(lastReq, suffix)) =>
        LET bindings == executed[1].bindings
            numbers == Placeholders(WhereClause(executed[1].text))
            nodes == ValueNodes(lastReq.filter)
        IN  /\ Len(numbers) = Len(bindings)
            /\ \A k \in 1..Len(numbers) : numbers[k] = ToString(k)
            /\ Len(bindings) = Len(nodes)
            /\ \A i \in 1..Len(nodes) :
                  IsSubsequence(Flatten(ComparedValues(nodes[i])), bindings[i])

\* C15 witness: the query of a tree with a Present node between two value
\* nodes and with value nodes under Not and Or has its four placeholders.
C15_Witness ==
    /\ lastReq.op = "Search"
    /\ executed # << >>
    /\ Placeholders(WhereClause(executed[1].text)) = <<"1", "2", "3", "4">>
    /\ Len(lastReq.filter.filters) = 4
    /\ lastReq.filter.filters[2].kind = "Present"
    /\ lastReq.filter.filters[3].kind = "Not"
    /\ pc = "send"

\* C16: the name Whoami reports is "Anonymous" only if a bind of the session
\* was answered with success, that is only if the session holds a SQL
\* connection; a bind answered with an error, an anonymous bind that fails to
\* connect included, leaves the name Whoami reports unchanged.
C16_AnonymousOnlyAfterSuccess ==
    /\ do_whoami(Session) = WhoamiSuccess(Str_dn \o Str_Anonymous) => sql_connection
    /\ (lastReq.op = "SimpleBind" /\ produced # <<BindSuccess>>) =>
          do_whoami(Session) = do_whoami(pre)
    /\ (lastReq.op = "Whoami" /\ ~pre.sql_connection) =>
          produced # <<WhoamiSuccess(Str_dn \o Str_Anonymous)>>

\* C17: the WHERE clause generated from a filter tree is well-formed also when
\* the tree holds And([]) or Or([]), at the top, inside a group or under Not:
\* the text after "WHERE " is not empty, every AND or OR stands between two
\* operands that are not empty, and every "(NOT " is followed by an operand.
C17_WellFormedWhere ==
    (lastReq.op = "Search" /\ executed # << >> /\ UsesFilter(lastReq, suffix)) =>
        LET where == WhereClause(executed[1].text)
        IN  /\ Len(where) >= 2
            /\ \A i \in 1..Len(where) :
                  /\ where[i] \in {"AND ", "OR "} =>
                        /\ i > 1 /\ where[i - 1] \notin {"(", "AND ", "OR ", "(NOT ", "WHERE "}
                        /\ i < Len(where) /\ where[i + 1] \notin {") ", "AND ", "OR "}
                  /\ where[i] = "(NOT " =>
                        i < Len(where) /\ where[i + 1] \notin {") ", "AND ", "OR "}
                  /\ where[i] = "(" =>
                        i < Len(where) /\ where[i + 1] # ") "

\* the distinguished names of the entries the table rows r of a set make
RowDNs(rows, sfx) ==
    { <<"c", "n", "=">>
      \o unwrap(Table[r][unwrap(MappingsGet(mappings, Str_cn)).col])
      \o <<",">> \o sfx : r \in rows }

\* the distinguished names of the entries among the messages of a result
EntryDNs(msgs) ==
    { msgs[i].dn : i \in { i \in 1..Len(msgs) : msgs[i].op = "SearchResultEntry" } }

\* C18: an Equality(a, v) filter on a mapped attribute binds a value that
\* denotes v itself, so that a scan of the suffix with it returns exactly the
\* rows whose column equals v ignoring case, also when v holds "%" or "_".
C18_EqualityMatchesValue ==
    (lastReq.op = "Search" /\ IsSubtreeScan(lastReq, suffix)
     /\ lastReq.filter.kind = "Equality"
     /\ is_some(MappingsGet(mappings, lastReq.filter.attr))
     /\ executed # << >>) =>
        LET col == unwrap(MappingsGet(mappings, lastReq.filter.attr)).col
            v == lastReq.filter.value
        IN  /\ executed[1].bindings = <<v>>
            /\ produced # << >> =>
                  EntryDNs(produced) =
                      RowDNs({ r \in 1..Len(Table) :
                                  /\ is_some(Table[r][col])
                                  /\ to_lowercase(unwrap(Table[r][col])) = to_lowercase(v) },
                             suffix)

\* the character at position i of a LIKE pattern is escaped: an odd number of
\* backslashes stands right in front of it
EscapedAt(p, i) ==
    Cardinality({ k \in 1..(i - 1) : \A j \in 1..k : p[i - j] = "\\" }) % 2 = 1

\* C19: the LIKE pattern bound for a Substring filter with at least one
\* component begins with an unescaped "%" when there is no initial component
\* and ends with an unescaped "%" when there is no final component; a filter
\* with a final component only selects the rows whose value ends with it.
C19_SubstringWildcards ==
    (lastReq.op = "Search" /\ IsSubtreeScan(lastReq, suffix)
     /\ lastReq.filter.kind = "Substring"
     /\ ComparedValues(lastReq.filter) # << >>
     /\ is_some(MappingsGet(mappings, lastReq.filter.attr))
     /\ executed # << >>) =>
        LET f == lastReq.filter
            col == unwrap(MappingsGet(mappings, f.attr)).col
            pattern == executed[1].bindings[1]
        IN  /\ ~is_some(f.initial) => Len(pattern) >= 1 /\ pattern[1] = "%"
            /\ ~is_some(f.final) =>
                  /\ Len(pattern) >= 1
                  /\ pattern[Len(pattern)] = "%"
                  /\ ~EscapedAt(pattern, Len(pattern))
            /\ (~is_some(f.initial) /\ f.any = << >> /\ produced # << >>) =>
                  EntryDNs(produced) =
                      RowDNs({ r \in 1..Len(Table) :
                                  /\ is_some(Table[r][col])
                                  /\ ends_with(to_lowercase(unwrap(Table[r][col])),
                                               to_lowercase(unwrap(f.final))) },
                             suffix)

====
